---- MODULE Spec2Model ----
(***************************************************************************)
(* A model of the AI Medical Scribe (src/main.py).                         *)
(*                                                                         *)
(* Spec       : the browser component embedded in the page (the script of  *)
(*              AUDIO_COMPONENT_HTML): one JavaScript event loop, so every *)
(*              handler runs to completion; startRecording is async and    *)
(*              has one suspension point (await getUserMedia).  Buttons    *)
(*              that are disabled or hidden cannot be clicked.  The views  *)
(*              computed from the state (renderTranscript, updateStats,    *)
(*              the duration timer) are left out.                          *)
(* SpecEnrich : the Streamlit side: Generate / Clear clicks and the        *)
(*              post-encounter processing run.                             *)
(* SpecQueue  : the bounded audio queue of section 4.2 of the              *)
(*              specification (its code is not in src/main.py).            *)
(***************************************************************************)
EXTENDS Integers, Sequences, FiniteSets, TLC

(* ------------------------------ bounds --------------------------------- *)
\* startRecording calls (hence sockets created) in one behaviour
MaxSockets == 2
\* finalized turns the service delivers between two resets of the turn list
MaxTurns == 2
\* characters of a text once trimmed
MaxLen == 1
\* whitespace characters around a text
MaxPad == 1

(* ------------------------------ state ---------------------------------- *)
VARIABLES
    transcripts,      \* let transcripts = []  : sequence of [text, speaker]
    currentPartial,   \* let currentPartial = ""
    totalWords,       \* let totalWords = 0
    ws,               \* let ws = null : 0 (null) or the index of a socket
    sockets,          \* every WebSocket object created so far
    status,           \* #status textContent
    startBtnDisabled, \* #startBtn.disabled
    stopBtnDisabled,  \* #stopBtn.disabled
    newBtnShown,      \* #newBtn.style.display = "inline-block"
    hiddenValue,      \* #hiddenTranscript.value
    pendingMic,       \* startRecording calls suspended at await getUserMedia
    captureHandle,    \* window._sttProcessor, _sttSource, audioContext, mediaStream set
    liveProcessors,   \* script processors still connected to an audio graph
    timers,           \* pending setTimeout callbacks of stopRecording
    uncaught,         \* an exception escaped a handler (TypeError in the timer callback)
    lastOp            \* history: the handler that ran last, with its input

browserVars == <<transcripts, currentPartial, totalWords, ws, sockets, status,
                 startBtnDisabled, stopBtnDisabled, newBtnShown, hiddenValue,
                 pendingMic, captureHandle, liveProcessors, timers, uncaught, lastOp>>

\* the Streamlit session
VARIABLES
    transcript_input,     \* the "Encounter Transcript" text area
    encounter_transcript, \* st.session_state.encounter_transcript
    processing,           \* st.session_state.processing
    soap_note,            \* st.session_state.soap_note
    redacted_transcript,  \* st.session_state.redacted_transcript
    sentiment_results,    \* st.session_state.sentiment_results
    attempts,             \* history: calls made to each helper by the last processing run
    enrichOp              \* history: the script run that came last, with the calls' outcomes

enrichVars == <<transcript_input, encounter_transcript, processing, soap_note,
                redacted_transcript, sentiment_results, attempts, enrichOp>>

\* the bounded audio queue
VARIABLES
    audioQueue,   \* the queued PCM chunks, oldest first; a chunk is its push number
    pushed,       \* chunks pushed so far
    sincePop      \* history: pushes since the last pop or discard

queueVars == <<audioQueue, pushed, sincePop>>

otherThanBrowser == <<enrichVars, queueVars>>

(* ------------------------------ text ----------------------------------- *)
\* A string is a sequence of characters; " " stands for any whitespace.
Alphabet == {"a", " "}

Strings(n) == UNION {[1..k -> Alphabet] : k \in 0..n}

\* data.transcript may be absent from the message
Undefined == <<"undefined">>

\* const text = data.transcript || "";
TextOf(t) == IF t = Undefined THEN <<>> ELSE t

RECURSIVE TrimLeft(_)
TrimLeft(s) == IF s # <<>> /\ Head(s) = " " THEN TrimLeft(Tail(s)) ELSE s

RECURSIVE TrimRight(_)
TrimRight(s) ==
    IF s # <<>> /\ s[Len(s)] = " " THEN TrimRight(SubSeq(s, 1, Len(s) - 1)) ELSE s

\* String.prototype.trim
Trim(s) == TrimRight(TrimLeft(s))

\* the texts a message or the text area may carry
Texts == {t \in Strings(MaxLen + MaxPad) : Len(Trim(t)) <= MaxLen}

\* text.trim().split(/\s+/).length : the number of maximal runs of non-whitespace
WordCount(s) ==
    Cardinality({i \in 1..Len(s) : s[i] # " " /\ (i = 1 \/ s[i - 1] = " ")})

(* ------------------------------ turns ---------------------------------- *)
GetSpeakerOffByOne(index) == IF (index + 1) % 2 = 0 THEN "Doctor" ELSE "Patient"

\* function getSpeaker(index)
GetSpeaker(index) == IF index % 2 = 0 THEN "Doctor" ELSE "Patient"

RECURSIVE Join(_)
Join(parts) ==
    IF parts = <<>> THEN <<>>
    ELSE IF Len(parts) = 1 THEN parts[1]
    ELSE parts[1] \o <<"\n", "\n">> \o Join(Tail(parts))

BuildTranscriptTextWithPartial(trs) ==
    Join([i \in 1..Len(trs) |-> <<trs[i].speaker, ":", " ">> \o trs[i].text]
         \o (IF currentPartial # <<>> THEN <<currentPartial>> ELSE <<>>))

\* function buildTranscriptText: transcripts.map(t => t.speaker + ": " + t.text).join("\n\n")
BuildTranscriptText(trs) ==
    Join([i \in 1..Len(trs) |-> <<trs[i].speaker, ":", " ">> \o trs[i].text])

Acc(trs, cp, tw) == [transcripts |-> trs, currentPartial |-> cp, totalWords |-> tw]

ApplyTurnKeepPartial(trs, cp, tw, formatted, transcript) ==
    LET text == TextOf(transcript) IN
    IF formatted /\ Trim(text) # <<>>
    THEN Acc(Append(trs, [text |-> Trim(text), speaker |-> GetSpeaker(Len(trs))]),
             cp, tw + WordCount(Trim(text)))
    ELSE IF Trim(text) # <<>> THEN Acc(trs, Trim(text), tw)
    ELSE Acc(trs, cp, tw)

ApplyTurnUnshift(trs, cp, tw, formatted, transcript) ==
    LET text == TextOf(transcript) IN
    IF formatted /\ Trim(text) # <<>>
    THEN Acc(<<[text |-> Trim(text), speaker |-> GetSpeaker(Len(trs))]>> \o trs,
             <<>>, tw + WordCount(Trim(text)))
    ELSE IF Trim(text) # <<>> THEN Acc(trs, Trim(text), tw)
    ELSE Acc(trs, cp, tw)

\* ws.onmessage, the branch data.type === "Turn", on the accumulator state
ApplyTurn(trs, cp, tw, formatted, transcript) ==
    LET text == TextOf(transcript) IN
    IF formatted /\ Trim(text) # <<>>
    THEN Acc(Append(trs, [text |-> Trim(text), speaker |-> GetSpeaker(Len(trs))]),
             <<>>, tw + WordCount(Trim(text)))
    ELSE IF Trim(text) # <<>> THEN Acc(trs, Trim(text), tw)
    ELSE Acc(trs, cp, tw)

(* ------------------------------ sockets -------------------------------- *)
\* new WebSocket(WS_URL): readyState CONNECTING; terminateSent records that the page
\* sent {type: "Terminate"} on the socket.
NewSocket == [readyState |-> "CONNECTING", terminateSent |-> FALSE]

Sock == 1..Len(sockets)

Live(s) == sockets[s].readyState \in {"CONNECTING", "OPEN"}

\* lastOp: the handler, the Turn message it handled, and the frame it sent on ws
Op(name, formatted, text, sent) ==
    [op |-> name, formatted |-> formatted, text |-> text, sent |-> sent]

(* ------------------------------ handlers ------------------------------- *)
\* function onEncounterStopped (with onEncounterComplete), as the values it leaves
StoppedStatus(trs) ==
    IF Len(trs) > 0 THEN "Encounter complete" ELSE "No speech detected"

StoppedHiddenValue(trs) == IF Len(trs) > 0 THEN BuildTranscriptText(trs) ELSE hiddenValue

\* click on #startBtn: startRecording up to the await
StartRecording ==
    /\ ~startBtnDisabled
    /\ Len(sockets) < MaxSockets
    /\ startBtnDisabled' = TRUE
    /\ stopBtnDisabled' = FALSE
    /\ newBtnShown' = FALSE
    /\ transcripts' = <<>>
    /\ currentPartial' = <<>>
    /\ totalWords' = 0
    /\ status' = "Connecting..."
    /\ sockets' = Append(sockets, NewSocket)
    /\ ws' = Len(sockets) + 1
    /\ pendingMic' = pendingMic + 1
    /\ lastOp' = Op("startRecording", FALSE, <<>>, "none")
    /\ UNCHANGED <<hiddenValue, captureHandle, liveProcessors, timers, uncaught>>
    /\ UNCHANGED otherThanBrowser

\* getUserMedia resolves: the rest of the try block of startRecording
MicGranted ==
    /\ pendingMic > 0
    /\ pendingMic' = pendingMic - 1
    /\ captureHandle' = TRUE
    /\ liveProcessors' = liveProcessors + 1
    /\ lastOp' = Op("micGranted", FALSE, <<>>, "none")
    /\ UNCHANGED <<transcripts, currentPartial, totalWords, ws, sockets, status,
                   startBtnDisabled, stopBtnDisabled, newBtnShown, hiddenValue,
                   timers, uncaught>>
    /\ UNCHANGED otherThanBrowser

\* getUserMedia rejects: the catch block of startRecording
MicRefused ==
    /\ pendingMic > 0
    /\ pendingMic' = pendingMic - 1
    /\ status' = "Error"
    /\ startBtnDisabled' = FALSE
    /\ stopBtnDisabled' = TRUE
    /\ lastOp' = Op("micRefused", FALSE, <<>>, "none")
    /\ UNCHANGED <<transcripts, currentPartial, totalWords, ws, sockets, newBtnShown,
                   hiddenValue, captureHandle,
                   liveProcessors, timers, uncaught>>
    /\ UNCHANGED otherThanBrowser

\* ws.onopen
SocketOpen(s) ==
    /\ sockets[s].readyState = "CONNECTING"
    /\ sockets' = [sockets EXCEPT ![s].readyState = "OPEN"]
    /\ status' = "Recording"
    /\ lastOp' = Op("onopen", FALSE, <<>>, "none")
    /\ UNCHANGED <<transcripts, currentPartial, totalWords, ws, startBtnDisabled,
                   stopBtnDisabled, newBtnShown, hiddenValue, pendingMic,
                   captureHandle, liveProcessors, timers, uncaught>>
    /\ UNCHANGED otherThanBrowser

\* ws.onmessage with data.type === "Turn"
OnTurn(s, formatted, transcript) ==
    LET r == ApplyTurn(transcripts, currentPartial, totalWords, formatted, transcript) IN
    /\ sockets[s].readyState = "OPEN"
    /\ Len(r.transcripts) <= MaxTurns
    /\ transcripts' = r.transcripts
    /\ currentPartial' = r.currentPartial
    /\ totalWords' = r.totalWords
    /\ lastOp' = Op("Turn", formatted, transcript, "none")
    /\ UNCHANGED <<ws, sockets, status, startBtnDisabled, stopBtnDisabled, newBtnShown,
                   hiddenValue, pendingMic, captureHandle, liveProcessors,
                   timers, uncaught>>
    /\ UNCHANGED otherThanBrowser

\* ws.onmessage with data.type === "Termination"
OnTermination(s) ==
    /\ sockets[s].readyState = "OPEN"
    /\ status' = "Session ended"
    /\ lastOp' = Op("Termination", FALSE, <<>>, "none")
    /\ UNCHANGED <<transcripts, currentPartial, totalWords, ws, sockets,
                   startBtnDisabled, stopBtnDisabled, newBtnShown, hiddenValue,
                   pendingMic, captureHandle,
                   liveProcessors, timers, uncaught>>
    /\ UNCHANGED otherThanBrowser

\* ws.onmessage with data.type === "Begin": console.log only
OnBegin(s) ==
    /\ sockets[s].readyState = "OPEN"
    /\ lastOp' = Op("Begin", FALSE, <<>>, "none")
    /\ UNCHANGED <<transcripts, currentPartial, totalWords, ws, sockets, status,
                   startBtnDisabled, stopBtnDisabled, newBtnShown, hiddenValue,
                   pendingMic, captureHandle,
                   liveProcessors, timers, uncaught>>
    /\ UNCHANGED otherThanBrowser

SocketErrorResets(s) ==
    /\ sockets[s].readyState # "CLOSED"
    /\ sockets' = [sockets EXCEPT ![s].readyState = "CLOSED"]
    /\ status' = "WebSocket error"
    /\ transcripts' = <<>>
    /\ currentPartial' = <<>>
    /\ totalWords' = 0
    /\ lastOp' = Op("onerror", FALSE, <<>>, "none")
    /\ UNCHANGED <<ws, startBtnDisabled, stopBtnDisabled, newBtnShown, hiddenValue,
                   pendingMic, captureHandle, liveProcessors, timers, uncaught>>
    /\ UNCHANGED otherThanBrowser

\* ws.onerror; the browser closes a socket that failed
SocketError(s) ==
    /\ sockets[s].readyState # "CLOSED"
    /\ sockets' = [sockets EXCEPT ![s].readyState = "CLOSED"]
    /\ status' = "WebSocket error"
    /\ lastOp' = Op("onerror", FALSE, <<>>, "none")
    /\ UNCHANGED <<transcripts, currentPartial, totalWords, ws, startBtnDisabled,
                   stopBtnDisabled, newBtnShown, hiddenValue, pendingMic,
                   captureHandle, liveProcessors, timers, uncaught>>
    /\ UNCHANGED otherThanBrowser

\* ws.onclose (the service closed, or the closing handshake ended): console.log only
SocketClose(s) ==
    /\ sockets[s].readyState \in {"OPEN", "CLOSING"}
    /\ sockets' = [sockets EXCEPT ![s].readyState = "CLOSED"]
    /\ lastOp' = Op("onclose", FALSE, <<>>, "none")
    /\ UNCHANGED <<transcripts, currentPartial, totalWords, ws, status,
                   startBtnDisabled, stopBtnDisabled, newBtnShown, hiddenValue,
                   pendingMic, captureHandle,
                   liveProcessors, timers, uncaught>>
    /\ UNCHANGED otherThanBrowser

\* processor.onaudioprocess of a connected processor
AudioProcess ==
    /\ liveProcessors > 0
    /\ lastOp' = Op("onaudioprocess", FALSE, <<>>,
                    IF ws # 0 /\ sockets[ws].readyState = "OPEN" THEN "audio" ELSE "none")
    /\ UNCHANGED <<transcripts, currentPartial, totalWords, ws, sockets, status,
                   startBtnDisabled, stopBtnDisabled, newBtnShown, hiddenValue,
                   pendingMic, captureHandle,
                   liveProcessors, timers, uncaught>>
    /\ UNCHANGED otherThanBrowser

\* stopRecording, the branch ws && ws.readyState === WebSocket.OPEN
StopOpenBranch ==
    /\ sockets' = [sockets EXCEPT ![ws].terminateSent = TRUE]
    /\ timers' = timers + 1
    /\ status' = "Stopping..."
    /\ UNCHANGED <<ws, newBtnShown, hiddenValue>>

\* click on #stopBtn: stopRecording
StopRecording ==
    /\ ~stopBtnDisabled
    /\ stopBtnDisabled' = TRUE
    /\ captureHandle' = FALSE
    /\ liveProcessors' = IF captureHandle THEN liveProcessors - 1 ELSE liveProcessors
    /\ IF ws # 0 /\ sockets[ws].readyState = "OPEN"
       THEN StopOpenBranch
       ELSE /\ status' = StoppedStatus(transcripts)
            /\ newBtnShown' = TRUE
            /\ hiddenValue' = StoppedHiddenValue(transcripts)
            /\ UNCHANGED <<ws, sockets, timers>>
    /\ lastOp' = Op("stopRecording", FALSE, <<>>,
                    IF ws # 0 /\ sockets[ws].readyState = "OPEN" THEN "Terminate" ELSE "none")
    /\ UNCHANGED <<transcripts, currentPartial, totalWords, startBtnDisabled,
                   pendingMic, uncaught>>
    /\ UNCHANGED otherThanBrowser

\* ws.close() in the timer callback
CloseSocket(sk) ==
    IF sk.readyState \in {"CONNECTING", "OPEN"}
    THEN [sk EXCEPT !.readyState = "CLOSING"]
    ELSE sk

\* the setTimeout callback of stopRecording: ws.close(); ws = null; onEncounterStopped()
TimerFires ==
    /\ timers > 0
    /\ timers' = timers - 1
    /\ lastOp' = Op("timer", FALSE, <<>>, "none")
    /\ IF ws = 0
       THEN /\ uncaught' = TRUE
            /\ UNCHANGED <<ws, sockets, status, newBtnShown, hiddenValue>>
       ELSE /\ sockets' = [sockets EXCEPT ![ws] = CloseSocket(sockets[ws])]
            /\ ws' = 0
            /\ status' = StoppedStatus(transcripts)
            /\ newBtnShown' = TRUE
            /\ hiddenValue' = StoppedHiddenValue(transcripts)
            /\ UNCHANGED uncaught
    /\ UNCHANGED <<transcripts, currentPartial, totalWords, startBtnDisabled,
                   stopBtnDisabled, pendingMic, captureHandle,
                   liveProcessors>>
    /\ UNCHANGED otherThanBrowser

\* click on #newBtn: newEncounter
NewEncounter ==
    /\ newBtnShown
    /\ transcripts' = <<>>
    /\ currentPartial' = <<>>
    /\ totalWords' = 0
    /\ startBtnDisabled' = FALSE
    /\ stopBtnDisabled' = TRUE
    /\ newBtnShown' = FALSE
    /\ status' = "Ready"
    /\ hiddenValue' = <<>>
    /\ lastOp' = Op("newEncounter", FALSE, <<>>, "none")
    /\ UNCHANGED <<ws, sockets, pendingMic, captureHandle, liveProcessors,
                   timers, uncaught>>
    /\ UNCHANGED otherThanBrowser

BrowserInit ==
    /\ transcripts = <<>>
    /\ currentPartial = <<>>
    /\ totalWords = 0
    /\ ws = 0
    /\ sockets = <<>>
    /\ status = "Ready"
    /\ startBtnDisabled = FALSE
    /\ stopBtnDisabled = TRUE
    /\ newBtnShown = FALSE
    /\ hiddenValue = <<>>
    /\ pendingMic = 0
    /\ captureHandle = FALSE
    /\ liveProcessors = 0
    /\ timers = 0
    /\ uncaught = FALSE
    /\ lastOp = Op("load", FALSE, <<>>, "none")

(* ------------------- post-encounter processing (Streamlit) -------------- *)
\* Python None
None == <<"None">>

\* str.strip
Strip(s) == Trim(s)

\* What one call_llm does: it returns the completion (which may be the empty string)
\* or raises (requests error, non-2xx status, malformed body).
Outcomes == {"ok", "empty", "raise"}

\* the value a helper returns when call_llm returns
Response(task, outcome, transcript) ==
    IF outcome = "empty" THEN <<>> ELSE <<task>> \o transcript

\* the value the except clause of a block stores
Placeholder(task) == <<"Error", task>>

NoAttempts == [soap |-> 0, redact |-> 0, sentiment |-> 0]

EnrichState(p, sn, rt, sr, at) ==
    [processing |-> p, soap_note |-> sn, redacted_transcript |-> rt,
     sentiment_results |-> sr, attempts |-> at]

TryCallLeavesNone(task, outcome, transcript) ==
    IF outcome = "raise" THEN None ELSE Response(task, outcome, transcript)

\* try: slot = helper(transcript)  except Exception: slot = placeholder
TryCall(task, outcome, transcript) ==
    IF outcome = "raise" THEN Placeholder(task) ELSE Response(task, outcome, transcript)

ProcessingRunAbortOnRaise(transcript, o1, o2, o3) ==
    IF o1 = "raise"
    THEN EnrichState(TRUE, soap_note, redacted_transcript, sentiment_results,
                     [NoAttempts EXCEPT !.soap = 1])
    ELSE IF o2 = "raise"
    THEN EnrichState(TRUE, Response("soap", o1, transcript), redacted_transcript,
                     sentiment_results, [NoAttempts EXCEPT !.soap = 1, !.redact = 1])
    ELSE EnrichState(FALSE, Response("soap", o1, transcript),
                     Response("redact", o2, transcript),
                     TryCall("sentiment", o3, transcript),
                     [soap |-> 1, redact |-> 1, sentiment |-> 1])

\* the body of "if st.session_state.processing and st.session_state.encounter_transcript"
ProcessingRun(transcript, o1, o2, o3) ==
    EnrichState(FALSE,
                TryCall("soap", o1, transcript),
                TryCall("redact", o2, transcript),
                TryCall("sentiment", o3, transcript),
                [soap |-> 1, redact |-> 1, sentiment |-> 1])

EOp(name, o1, o2, o3) == [op |-> name, o1 |-> o1, o2 |-> o2, o3 |-> o3]

\* the user edits the text area (a script run with no button clicked); while the
\* processing flag is set the run that follows is the processing run
EditTranscript(t) ==
    /\ ~processing
    /\ transcript_input' = t
    /\ enrichOp' = EOp("edit", "none", "none", "none")
    /\ UNCHANGED <<encounter_transcript, processing, soap_note, redacted_transcript,
                   sentiment_results, attempts>>
    /\ UNCHANGED <<browserVars, queueVars>>

GenerateClickedNoStrip ==
    /\ ~(processing \/ transcript_input = <<>>)
    /\ encounter_transcript' = transcript_input
    /\ processing' = TRUE
    /\ soap_note' = None
    /\ redacted_transcript' = None
    /\ sentiment_results' = None
    /\ enrichOp' = EOp("generate", "none", "none", "none")
    /\ UNCHANGED <<transcript_input, attempts>>
    /\ UNCHANGED <<browserVars, queueVars>>

\* click on "Generate SOAP Notes, PII Redaction & Sentiment"
GenerateClicked ==
    /\ ~(processing \/ Strip(transcript_input) = <<>>)
    /\ Strip(transcript_input) # <<>>
    /\ encounter_transcript' = Strip(transcript_input)
    /\ processing' = TRUE
    /\ soap_note' = None
    /\ redacted_transcript' = None
    /\ sentiment_results' = None
    /\ enrichOp' = EOp("generate", "none", "none", "none")
    /\ UNCHANGED <<transcript_input, attempts>>
    /\ UNCHANGED <<browserVars, queueVars>>

\* click on "Clear / New Encounter"
ClearClicked ==
    /\ encounter_transcript' = <<>>
    /\ soap_note' = None
    /\ redacted_transcript' = None
    /\ sentiment_results' = None
    /\ processing' = FALSE
    /\ enrichOp' = EOp("clear", "none", "none", "none")
    /\ UNCHANGED <<transcript_input, attempts>>
    /\ UNCHANGED <<browserVars, queueVars>>

\* the script run that follows st.rerun(): Post-Encounter Processing
ProcessEncounter(o1, o2, o3) ==
    LET r == ProcessingRun(encounter_transcript, o1, o2, o3) IN
    /\ processing /\ encounter_transcript # <<>>
    /\ processing' = r.processing
    /\ soap_note' = r.soap_note
    /\ redacted_transcript' = r.redacted_transcript
    /\ sentiment_results' = r.sentiment_results
    /\ attempts' = r.attempts
    /\ enrichOp' = EOp("process", o1, o2, o3)
    /\ UNCHANGED <<transcript_input, encounter_transcript>>
    /\ UNCHANGED <<browserVars, queueVars>>

EnrichInit ==
    /\ transcript_input = <<>>
    /\ encounter_transcript = <<>>
    /\ processing = FALSE
    /\ soap_note = None
    /\ redacted_transcript = None
    /\ sentiment_results = None
    /\ attempts = NoAttempts
    /\ enrichOp = EOp("load", "none", "none", "none")

(* ------------------------- bounded audio queue -------------------------- *)
\* capacity N of the queue, scaled down
QueueCapacity == 3
\* chunks pushed in one behaviour
MaxPushes == 12

PushedDropNewest(q, chunk) == IF Len(q) >= QueueCapacity THEN q ELSE Append(q, chunk)

\* push(chunk): at capacity, evict exactly one oldest element first, then insert
Pushed(q, chunk) == Append(IF Len(q) >= QueueCapacity THEN Tail(q) ELSE q, chunk)

\* the producer pushes one chunk
Push ==
    /\ pushed < MaxPushes
    /\ audioQueue' = Pushed(audioQueue, pushed + 1)
    /\ pushed' = pushed + 1
    /\ sincePop' = sincePop + 1
    /\ UNCHANGED <<browserVars, enrichVars>>

\* pop(timeout) of the sender lane, when a chunk is there
Pop ==
    /\ audioQueue # <<>>
    /\ audioQueue' = Tail(audioQueue)
    /\ sincePop' = 0
    /\ UNCHANGED <<pushed, browserVars, enrichVars>>

\* Open: discard stale queued chunks before starting
Discard ==
    /\ audioQueue' = <<>>
    /\ sincePop' = 0
    /\ UNCHANGED <<pushed, browserVars, enrichVars>>

QueueInit ==
    /\ audioQueue = <<>>
    /\ pushed = 0
    /\ sincePop = 0

(* --------------------------- specifications ---------------------------- *)
vars == <<browserVars, enrichVars, queueVars>>

Init == BrowserInit /\ EnrichInit /\ QueueInit

Next ==
    \/ StartRecording
    \/ MicGranted
    \/ MicRefused
    \/ \E s \in Sock : SocketOpen(s)
    \/ \E s \in Sock, f \in BOOLEAN, t \in Texts \cup {Undefined} : OnTurn(s, f, t)
    \/ \E s \in Sock : OnTermination(s)
    \/ \E s \in Sock : OnBegin(s)
    \/ \E s \in Sock : SocketError(s)
    \/ \E s \in Sock : SocketClose(s)
    \/ AudioProcess
    \/ StopRecording
    \/ TimerFires
    \/ NewEncounter

Spec == Init /\ [][Next]_vars

NextEnrich ==
    \/ \E t \in Texts : EditTranscript(t)
    \/ GenerateClicked
    \/ ClearClicked
    \/ \E o1 \in Outcomes, o2 \in Outcomes, o3 \in Outcomes : ProcessEncounter(o1, o2, o3)

SpecEnrich == Init /\ [][NextEnrich]_vars

NextQueue == Push \/ Pop \/ Discard

SpecQueue == Init /\ [][NextQueue]_vars

(* ------------------------------- claims -------------------------------- *)
\* the trimmed text of the Turn message handled last
LastText == Trim(TextOf(lastOp.text))

\* C1: every Turn message handled by ws.onmessage: formatted with non-empty trimmed
\* text appends exactly one turn (the trimmed text, a speaker) at the end of the turn
\* list and empties the pending partial; otherwise a non-empty trimmed text replaces
\* the pending partial and leaves the turn list alone; an empty text changes neither.
C1_TurnEvent ==
    [][lastOp'.op = "Turn" =>
        LET t == Trim(TextOf(lastOp'.text)) IN
        IF lastOp'.formatted /\ t # <<>>
        THEN /\ Len(transcripts') = Len(transcripts) + 1
             /\ SubSeq(transcripts', 1, Len(transcripts)) = transcripts
             /\ transcripts'[Len(transcripts')].text = t
             /\ transcripts'[Len(transcripts')].speaker \in {"Doctor", "Patient"}
             /\ currentPartial' = <<>>
        ELSE IF t # <<>>
        THEN currentPartial' = t /\ transcripts' = transcripts
        ELSE transcripts' = transcripts /\ currentPartial' = currentPartial]_vars

\* a formatted Turn with text has just been appended as the second turn
C1_Witness ==
    /\ lastOp.op = "Turn" /\ lastOp.formatted /\ LastText # <<>>
    /\ Len(transcripts) = 2
    /\ transcripts[2].text = LastText
    /\ currentPartial = <<>>

\* C2: in every reachable state the turn at (0-based) position i is the Doctor's when
\* i is even and the Patient's when i is odd.
C2_SpeakerParity ==
    \A i \in 1..Len(transcripts) :
        transcripts[i].speaker = (IF (i - 1) % 2 = 0 THEN "Doctor" ELSE "Patient")

\* two turns accumulated in a second session, after a stop and a restart
C2_Witness ==
    /\ Len(sockets) = 2
    /\ Len(transcripts) = 2
    /\ sockets[1].terminateSent

\* C3: between a startRecording and the next startRecording or newEncounter every step
\* leaves the turn list unchanged or adds exactly one turn at its end.
C3_AppendOnly ==
    [][lastOp'.op \notin {"startRecording", "newEncounter"} =>
        \/ transcripts' = transcripts
        \/ /\ Len(transcripts') = Len(transcripts) + 1
           /\ SubSeq(transcripts', 1, Len(transcripts)) = transcripts]_vars

\* the delayed close of a stop has run with two turns in the list
C3_Witness ==
    /\ lastOp.op = "timer"
    /\ Len(transcripts) = 2
    /\ ws = 0

\* C4: stopRecording with no session open, or called again while an earlier call's
\* delayed close is pending, is a no-op: the observable state is unchanged and no
\* exception is raised, in the call or in a timer callback.
C4_CloseIdempotent ==
    [][/\ (lastOp'.op = "stopRecording" /\ (ws = 0 \/ timers > 0)) =>
            UNCHANGED <<transcripts, currentPartial, ws, status, hiddenValue>>
       /\ ~uncaught']_vars

\* C5: a stopRecording with the connection open sends Terminate on it and only schedules
\* the close (the stop is not reported in that call), and the page never closes an open
\* connection on which it has not sent Terminate.
C5_TerminateBeforeClose ==
    [][/\ (lastOp'.op = "stopRecording" /\ ws # 0 /\ sockets[ws].readyState = "OPEN") =>
            /\ sockets'[ws].terminateSent
            /\ sockets'[ws].readyState = "OPEN"
            /\ timers' = timers + 1
            /\ newBtnShown' = newBtnShown
       /\ \A s \in Sock :
            (sockets[s].readyState = "OPEN" /\ sockets'[s].readyState = "CLOSING") =>
                sockets[s].terminateSent]_vars

\* C6: a processing run attempts each of the three enrichment calls exactly once
\* whatever succeeds or fails; a slot whose call failed holds that call's error
\* placeholder and every other slot holds its own call's response.
C6_IndependentCalls ==
    enrichOp.op = "process" =>
        /\ attempts = [soap |-> 1, redact |-> 1, sentiment |-> 1]
        /\ soap_note = (IF enrichOp.o1 = "raise" THEN <<"Error", "soap">>
                        ELSE Response("soap", enrichOp.o1, encounter_transcript))
        /\ redacted_transcript = (IF enrichOp.o2 = "raise" THEN <<"Error", "redact">>
                                  ELSE Response("redact", enrichOp.o2, encounter_transcript))
        /\ sentiment_results = (IF enrichOp.o3 = "raise" THEN <<"Error", "sentiment">>
                                ELSE Response("sentiment", enrichOp.o3, encounter_transcript))

\* redaction failed while the note and the sentiment call succeeded
C6_Witness ==
    /\ enrichOp = EOp("process", "ok", "raise", "ok")
    /\ soap_note = <<"soap">> \o encounter_transcript
    /\ redacted_transcript = <<"Error", "redact">>
    /\ sentiment_results = <<"sentiment">> \o encounter_transcript
    /\ encounter_transcript # <<>>

RECURSIVE ExpectedExport(_)
\* the finalized turns in list order, each as "speaker: text", a blank line between
ExpectedExport(trs) ==
    IF trs = <<>> THEN <<>>
    ELSE LET n == Len(trs)
             line == <<trs[n].speaker, ":", " ">> \o trs[n].text
         IN IF n = 1 THEN line
            ELSE ExpectedExport(SubSeq(trs, 1, n - 1)) \o <<"\n", "\n">> \o line

\* C7: the exported transcript is exactly the finalized turns in list order, each as
\* "speaker: text"; a Turn that is not formatted (or has no text) changes neither the
\* turn list nor the export, and a partial pending at the stop is not exported.
C7_NoPartialInExport ==
    [][/\ (lastOp'.op = "Turn" /\ ~(lastOp'.formatted /\ Trim(TextOf(lastOp'.text)) # <<>>)) =>
            (transcripts' = transcripts /\ hiddenValue' = hiddenValue)
       /\ (/\ \/ lastOp'.op = "stopRecording" /\ lastOp'.sent = "none"
              \/ lastOp'.op = "timer" /\ ws # 0
           /\ Len(transcripts') > 0) =>
            hiddenValue' = ExpectedExport(transcripts')]_vars

\* a stop with two turns and a partial still pending has exported the two turns only
C7_Witness ==
    /\ lastOp.op = "stopRecording"
    /\ status = "Encounter complete"
    /\ currentPartial # <<>>
    /\ Len(transcripts) = 2
    /\ hiddenValue = <<"Doctor", ":", " ">> \o transcripts[1].text \o <<"\n", "\n">>
                     \o <<"Patient", ":", " ">> \o transcripts[2].text

\* C8: the queue never holds more than QueueCapacity chunks, never duplicates or
\* reorders a chunk, a push on a full queue evicts exactly the oldest chunk and inserts,
\* and after more than QueueCapacity pushes with no pop it holds exactly the
\* QueueCapacity chunks pushed last, oldest first.
C8_DropOldest ==
    [][/\ Len(audioQueue') <= QueueCapacity
       /\ \A i \in 1..(Len(audioQueue') - 1) : audioQueue'[i] < audioQueue'[i + 1]
       /\ (pushed' = pushed + 1 /\ Len(audioQueue) = QueueCapacity) =>
            audioQueue' = Append(Tail(audioQueue), pushed')
       /\ sincePop' > QueueCapacity =>
            audioQueue' = [i \in 1..QueueCapacity |-> pushed' - QueueCapacity + i]]_vars

\* two chunks have been evicted since the last pop
C8_Witness ==
    /\ sincePop = QueueCapacity + 2
    /\ Len(audioQueue) = QueueCapacity
    /\ audioQueue[1] = pushed - QueueCapacity + 1

\* C9: the status is "Recording" only when the socket and the audio processor have both
\* started, and a stop during "Connecting..." does not go to Closing or Idle.
C9_StateMachine ==
    [][/\ status' = "Recording" => (ws' # 0 /\ captureHandle')
       /\ (lastOp'.op = "stopRecording" /\ status = "Connecting...") =>
            status' \notin {"Stopping...", "No speech detected", "Encounter complete",
                            "Ready"}]_vars

\* C10: at most one connection is connecting or open, and none is once the session has
\* ended (the start failed, or the stop was reported).
C10_SingleConnection ==
    /\ Cardinality({s \in Sock : Live(s)}) <= 1
    /\ (~startBtnDisabled \/ newBtnShown) => \A s \in Sock : ~Live(s)

\* stopRecording has been called in the session on screen: both buttons are disabled
\* from that call until newEncounter, or until the catch block of startRecording
StopRequested == startBtnDisabled /\ stopBtnDisabled

\* C11: an audio frame is sent only while the connection is open and stop has not been
\* requested: no onaudioprocess sends a frame after stopRecording or on a connection
\* that has been sent Terminate, and once stopRecording has been called no audio
\* capture (processor, audio context, microphone stream) is running.
C11_NoAudioAfterStop ==
    [][/\ (lastOp'.op = "onaudioprocess" /\ lastOp'.sent = "audio") =>
            /\ sockets[ws].readyState = "OPEN"
            /\ ~sockets[ws].terminateSent
            /\ ~StopRequested
       /\ StopRequested' => (liveProcessors' = 0 /\ ~captureHandle')]_vars

\* C12: when a Termination message has been handled on the only open connection, the
\* message handled next on it neither appends a turn nor changes the pending partial.
C12_TerminationEndsInbound ==
    [][(/\ lastOp.op = "Termination"
        /\ lastOp'.op = "Turn"
        /\ Cardinality({s \in Sock : sockets[s].readyState = "OPEN"}) = 1) =>
            UNCHANGED <<transcripts, currentPartial>>]_vars

\* C13: from the step in which onEncounterStopped has run until the next startRecording
\* or newEncounter the turn list does not change, and the exported text of a non-empty
\* turn list is the text built from the turn list.
C13_FinalOnceStopped ==
    [][(newBtnShown /\ lastOp'.op \notin {"startRecording", "newEncounter"}) =>
            /\ transcripts' = transcripts
            /\ Len(transcripts') > 0 => hiddenValue' = BuildTranscriptText(transcripts')]_vars

\* C14: ws.onerror and ws.onclose change neither the turn list nor the pending partial
\* nor the word count, nor the exported text or the buttons: of what the page shows
\* only the status may change.
C14_FaultKeepsTranscript ==
    [][lastOp'.op \in {"onerror", "onclose"} =>
            UNCHANGED <<transcripts, currentPartial, totalWords, hiddenValue,
                        startBtnDisabled, stopBtnDisabled, newBtnShown>>]_vars

\* a socket error in the middle of a session that holds a turn and a pending partial
C14_Witness ==
    /\ lastOp.op = "onerror"
    /\ status = "WebSocket error"
    /\ Len(transcripts) > 0
    /\ currentPartial # <<>>
    /\ totalWords > 0
    /\ ~stopBtnDisabled

\* C15: every stopRecording either runs onEncounterStopped itself or schedules one timer,
\* and every timer callback runs onEncounterStopped: it raises nothing and leaves the
\* session reported stopped, whatever has been received in between.
C15_StopCompletes ==
    [][/\ lastOp'.op = "stopRecording" =>
            \/ timers' = timers + 1 /\ lastOp'.sent = "Terminate"
            \/ timers' = timers /\ newBtnShown'
       /\ lastOp'.op = "timer" => (ws # 0 /\ ~uncaught' /\ newBtnShown')]_vars

\* a result field holds text: it is neither None nor the empty string
NonEmpty(field) == field # None /\ field # <<>>

FieldSet(field, task, o) ==
    /\ field # None
    /\ o = "raise" => (field = Placeholder(task) /\ NonEmpty(field))
    /\ o = "ok" => (field = Response(task, "ok", encounter_transcript) /\ NonEmpty(field))
    /\ o = "empty" => field = <<>>

C17_ProcessingHasTranscript ==
    [][/\ processing' =>
            (Strip(encounter_transcript') # <<>> /\ encounter_transcript' = Strip(encounter_transcript'))
       /\ enrichOp'.op = "process" => Strip(encounter_transcript) # <<>>
       /\ enrichOp'.op = "clear" =>
            /\ encounter_transcript' = <<>>
            /\ soap_note' = None
            /\ redacted_transcript' = None
            /\ sentiment_results' = None
            /\ ~processing']_vars

\* Generate clicked on a padded text: the flag is set and the stored transcript is the
\* stripped text
C17_Witness ==
    /\ enrichOp.op = "generate"
    /\ processing
    /\ transcript_input # Strip(transcript_input)
    /\ encounter_transcript = Strip(transcript_input)
    /\ encounter_transcript # <<>>

====
